---- MODULE Spec2Model ----
(***************************************************************************)
(* Transit data client of the "Va y Ven" frontend.                         *)
(*                                                                         *)
(*   - the Transport Repository (frontend/src/config/api.ts): five typed   *)
(*     request functions and connectToWebSocket;                           *)
(*   - the map component, in its two source versions: the stops-only       *)
(*     loader fetchStops (components/TransportMap.tsx) and the combined    *)
(*     stops-and-routes loader fetchData (unnamed/part_001).               *)
(*                                                                         *)
(* A component's state is its four useState cells.  Every setter call is   *)
(* one state update; the code between two awaits runs without              *)
(* interleaving, so an action is one setter call together with the code    *)
(* that precedes it since the last await or setter.                        *)
(***************************************************************************)
EXTENDS Naturals, Sequences, FiniteSets

\* ------------------------------------------------------------------ bounds
MaxItems == 1       \* longest list a response body carries
MaxReloads == 1     \* page reloads through the "Reintentar" button
MaxApiCalls == 2    \* direct calls of the repository functions per page
MaxSockets == 2     \* connectToWebSocket calls
MaxMessages == 2    \* push messages delivered to open sockets

\* ------------------------------------------------------------------ values
Kinds == {"stops", "routes", "alternativeRoutes", "coverage", "stats"}

\* identifiers a caller passes to getAlternativeRoutes / getCoverageAnalysis
Ids == {"", "A"}

\* useState<string | null>(null)
Null == "null"

\* What the network does with one fetch(): the promise rejects (transport
\* failure), the response is not ok (non-2xx), the body is not JSON
\* (response.json() rejects), or the body parses to an ApiResponse.
\* A parsed body: its top-level status, whether it has a data object,
\* whether data has the expected key, and the number of items under it.
NoOutcome == [net |-> "none", status |-> "none", hasData |-> FALSE, hasKey |-> FALSE, n |-> 0]

Failed(net) == [net |-> net, status |-> "none", hasData |-> FALSE, hasKey |-> FALSE, n |-> 0]

Body(status, hasData, hasKey, n) ==
    [net |-> "ok", status |-> status, hasData |-> hasData, hasKey |-> hasKey, n |-> n]

Bodies ==
    {Body("error", FALSE, FALSE, 0), Body("success", FALSE, FALSE, 0),
     Body("success", TRUE, FALSE, 0)}
    \cup {Body("success", TRUE, TRUE, n) : n \in 0..MaxItems}

Outcomes == {Failed("reject"), Failed("non2xx"), Failed("badjson")} \cup Bodies

\* the list under data.sample_stops / data.routes, as the sequence of its ids
Items(n) == [i \in 1..n |-> i]

\* ApiResponse<T>, and the value a repository promise settles with
\* (every value thrown here is an Error: fetch's TypeError, new Error(..),
\* json()'s SyntaxError, a property read of undefined)
Throw(msg) == [tag |-> "throw", msg |-> msg, isError |-> TRUE, body |-> NoOutcome]

Return(o) == [tag |-> "return", msg |-> "", isError |-> FALSE, body |-> o]

\* ------------------------------------------------------------------ state
VARIABLES
    variant,        \* which source version of TransportMap is mounted
    pc,             \* position of the effect's async function
    mounted,        \* the component is still in the tree
    stops,          \* useState<Stop[]>([])
    routes,         \* useState<Route[]>([])
    loading,        \* useState(true)
    error,          \* useState<string | null>(null)
    requests,       \* fetch() calls issued per endpoint since page load
    resp,           \* what the network answered to the component's requests
    loadingClears,  \* setLoading(false) calls since page load
    reloads,        \* window.location.reload() calls
    api,            \* a direct call of a repository function and its result
    apiCalls,       \* direct calls made since page load
    sockets,        \* readyState of every WebSocket created, in creation order
    connectCalls,   \* connectToWebSocket calls
    delivered       \* push messages delivered to open sockets, in order

mapVars == <<variant, pc, mounted, stops, routes, loading, error, resp, loadingClears>>

repoVars == <<api, apiCalls>>

wsVars == <<sockets, connectCalls, delivered>>

vars == <<variant, pc, mounted, stops, routes, loading, error, requests, resp,
          loadingClears, reloads, api, apiCalls, sockets, connectCalls, delivered>>

NoRequests == [k \in Kinds |-> 0]

NoResp == [k \in {"stops", "routes"} |-> NoOutcome]

IdleApi == [st |-> "idle", kind |-> "none", args |-> <<>>, out |-> NoOutcome, res |-> Throw("")]

Init ==
    /\ variant \in {"fetchStops", "fetchData"}
    /\ pc = "render"
    /\ mounted = TRUE
    /\ stops = <<>>
    /\ routes = <<>>
    /\ loading = TRUE
    /\ error = Null
    /\ requests = NoRequests
    /\ resp = NoResp
    /\ loadingClears = 0
    /\ reloads = 0
    /\ api = IdleApi
    /\ apiCalls = 0
    /\ sockets = <<>>
    /\ connectCalls = 0
    /\ delivered = <<>>

\* ------------------------------------------------------------------ Transport Repository
\* thrown message of each function on a non-2xx response
NotOkMessage(kind) ==
    CASE kind = "stops" -> "Error al obtener paradas"
      [] kind = "routes" -> "Error al obtener rutas"
      [] kind = "alternativeRoutes" -> "Error al obtener rutas alternativas"
      [] kind = "coverage" -> "Error al obtener analisis de cobertura"
      [] kind = "stats" -> "Error al obtener estadisticas del sistema"

\* a repository function whose catch block logs the error and does not
\* rethrow it
SettleSwallow(kind, o) == Return(o)

\* try { response = await fetch(..); if (!response.ok) throw new Error(..);
\*       return await response.json() } catch (error) { console.error; throw error }
Settle(kind, o) ==
    CASE o.net = "reject" -> Throw("Failed to fetch")
      [] o.net = "non2xx" -> Throw(NotOkMessage(kind))
      [] o.net = "badjson" -> Throw("Unexpected token in JSON")
      [] OTHER -> Return(o)

getStops(o) == Settle("stops", o)

getRoutes(o) == Settle("routes", o)

\* fetch(url): one more request on the endpoint
Issue(kind) == [requests EXCEPT ![kind] = @ + 1]

\* ------------------------------------------------------------------ map component
\* response.status === 'success' && response.data.<key>
\* (reading a key of an absent data object throws a TypeError; an empty
\* array is truthy)
Cond(body) ==
    IF body.status # "success" THEN "false"
    ELSE IF ~body.hasData THEN "TypeError"
    ELSE IF body.hasKey THEN "true" ELSE "false"

\* what the try block does with the settled repository call: "true"/"false"
\* for the branch taken, "throw" when control goes to the catch block
TryBranch(r) ==
    IF r.tag = "throw" THEN "throw"
    ELSE IF Cond(r.body) = "TypeError" THEN "throw" ELSE Cond(r.body)

\* the value the catch block receives
Caught(r) ==
    IF r.tag = "throw" THEN r ELSE Throw("Cannot read properties of undefined")

\* error instanceof Error ? error.message : 'Error de conexion con el servidor'
CatchMessage(e) ==
    IF e.isError THEN e.msg ELSE "Error de conexion con el servidor"

\* --- TransportMap.tsx: fetchStops
\* setLoading(true); await transportAPI.getStops()
FetchStopsBegin ==
    /\ variant = "fetchStops" /\ pc = "render" /\ mounted
    /\ loading' = TRUE
    /\ requests' = Issue("stops")
    /\ pc' = "awaitStops"
    /\ UNCHANGED <<variant, mounted, stops, routes, error, resp, loadingClears, reloads>>
    /\ UNCHANGED <<repoVars, wsVars>>

\* the await resumes: setStops(..) | setError(..) in the else branch |
\* setError(..) in the catch block
FetchStopsResume(o) ==
    /\ variant = "fetchStops" /\ pc = "awaitStops"
    /\ LET r == getStops(o)
           b == TryBranch(r)
       IN  /\ stops' = IF b = "true" THEN Items(r.body.n) ELSE stops
           /\ error' = CASE b = "true" -> error
                         [] b = "false" -> "No se pudieron cargar las paradas"
                         [] OTHER -> CatchMessage(Caught(r))
    /\ resp' = [resp EXCEPT !["stops"] = o]
    /\ pc' = "finally"
    /\ UNCHANGED <<variant, mounted, routes, loading, requests, loadingClears, reloads>>
    /\ UNCHANGED <<repoVars, wsVars>>

\* --- part_001: fetchData
\* setLoading(true); await transportAPI.getStops()
FetchDataBegin ==
    /\ variant = "fetchData" /\ pc = "render" /\ mounted
    /\ loading' = TRUE
    /\ requests' = Issue("stops")
    /\ pc' = "awaitStops"
    /\ UNCHANGED <<variant, mounted, stops, routes, error, resp, loadingClears, reloads>>
    /\ UNCHANGED <<repoVars, wsVars>>

\* a loader that catches the stops failure on its own and goes on to the
\* routes request regardless
FetchDataStopsResumeAnyway(o) ==
    /\ variant = "fetchData" /\ pc = "awaitStops"
    /\ LET r == getStops(o)
           b == TryBranch(r)
       IN  /\ stops' = IF b = "true" THEN Items(r.body.n) ELSE stops
           /\ error' = IF b = "throw" THEN CatchMessage(Caught(r)) ELSE error
    /\ requests' = Issue("routes")
    /\ pc' = "awaitRoutes"
    /\ resp' = [resp EXCEPT !["stops"] = o]
    /\ UNCHANGED <<variant, mounted, routes, loading, loadingClears, reloads>>
    /\ UNCHANGED <<repoVars, wsVars>>

\* the stops await resumes: setStops(..) when the condition holds, then
\* await transportAPI.getRoutes(); or setError(..) in the catch block
FetchDataStopsResume(o) ==
    /\ variant = "fetchData" /\ pc = "awaitStops"
    /\ LET r == getStops(o)
           b == TryBranch(r)
       IN  /\ stops' = IF b = "true" THEN Items(r.body.n) ELSE stops
           /\ IF b = "throw"
              THEN /\ error' = CatchMessage(Caught(r))
                   /\ pc' = "finally"
                   /\ UNCHANGED requests
              ELSE /\ requests' = Issue("routes")
                   /\ pc' = "awaitRoutes"
                   /\ UNCHANGED error
    /\ resp' = [resp EXCEPT !["stops"] = o]
    /\ UNCHANGED <<variant, mounted, routes, loading, loadingClears, reloads>>
    /\ UNCHANGED <<repoVars, wsVars>>

\* the routes await resumes: setRoutes(..) when the condition holds, or
\* setError(..) in the catch block
FetchDataRoutesResume(o) ==
    /\ variant = "fetchData" /\ pc = "awaitRoutes"
    /\ LET r == getRoutes(o)
           b == TryBranch(r)
       IN  /\ routes' = IF b = "true" THEN Items(r.body.n) ELSE routes
           /\ error' = IF b = "throw" THEN CatchMessage(Caught(r)) ELSE error
    /\ resp' = [resp EXCEPT !["routes"] = o]
    /\ pc' = "finally"
    /\ UNCHANGED <<variant, mounted, stops, loading, requests, loadingClears, reloads>>
    /\ UNCHANGED <<repoVars, wsVars>>

\* finally { setLoading(false) }   (both versions)
Finally ==
    /\ pc = "finally"
    /\ loading' = FALSE
    /\ loadingClears' = loadingClears + 1
    /\ pc' = "done"
    /\ UNCHANGED <<variant, mounted, stops, routes, error, requests, resp, reloads>>
    /\ UNCHANGED <<repoVars, wsVars>>

\* the component leaves the tree; the effect returns no cleanup function
Unmount ==
    /\ mounted
    /\ mounted' = FALSE
    /\ UNCHANGED <<variant, pc, stops, routes, loading, error, requests, resp,
                   loadingClears, reloads>>
    /\ UNCHANGED <<repoVars, wsVars>>

\* which of the three render branches the component returns
View ==
    IF loading THEN "Loading" ELSE IF error # Null THEN "Failure" ELSE "Success"

\* <button onClick={() => window.location.reload()}>Reintentar</button>,
\* rendered in the error branch: the page starts over
Reload ==
    /\ mounted /\ View = "Failure"
    /\ reloads < MaxReloads
    /\ reloads' = reloads + 1
    /\ pc' = "render"
    /\ stops' = <<>>
    /\ routes' = <<>>
    /\ loading' = TRUE
    /\ error' = Null
    /\ requests' = NoRequests
    /\ resp' = NoResp
    /\ loadingClears' = 0
    /\ api' = IdleApi
    /\ apiCalls' = 0
    /\ sockets' = [i \in DOMAIN sockets |-> "CLOSED"]
    /\ UNCHANGED <<variant, mounted, connectCalls, delivered>>

MapNext ==
    \/ FetchStopsBegin
    \/ \E o \in Outcomes : FetchStopsResume(o)
    \/ FetchDataBegin
    \/ \E o \in Outcomes : FetchDataStopsResume(o)
    \/ \E o \in Outcomes : FetchDataRoutesResume(o)
    \/ Finally
    \/ Unmount
    \/ Reload

\* ------------------------------------------------------------------ direct repository calls
CanCall == api.st # "pending" /\ apiCalls < MaxApiCalls

Call(kind, args) ==
    /\ CanCall
    /\ api' = [st |-> "pending", kind |-> kind, args |-> args, out |-> NoOutcome,
               res |-> Throw("")]
    /\ requests' = Issue(kind)
    /\ apiCalls' = apiCalls + 1
    /\ UNCHANGED <<mapVars, reloads, wsVars>>

\* fetch(`${endpoint}?origen=${origen}&destino=${destino}`)
getAlternativeRoutes(origen, destino) == Call("alternativeRoutes", <<origen, destino>>)

\* fetch(`${endpoint}/${ageb}`)
getCoverageAnalysis(ageb) == Call("coverage", <<ageb>>)

\* fetch(endpoint)
getSystemStats == Call("stats", <<>>)

\* the pending call's promise settles
ApiSettle(o) ==
    /\ api.st = "pending"
    /\ LET r == Settle(api.kind, o)
       IN  api' = [api EXCEPT !.st = IF r.tag = "throw" THEN "thrown" ELSE "returned",
                              !.out = o, !.res = r]
    /\ UNCHANGED <<mapVars, requests, reloads, apiCalls, wsVars>>

RepoNext ==
    \/ \E a, b \in Ids : getAlternativeRoutes(a, b)
    \/ \E a \in Ids : getCoverageAnalysis(a)
    \/ getSystemStats
    \/ \E o \in Outcomes : ApiSettle(o)

\* ------------------------------------------------------------------ live update channel
\* const ws = new WebSocket(wsURL); ws.onopen = ..; ws.onerror = ..;
\* ws.onclose = ..; return ws
connectToWebSocket ==
    /\ connectCalls < MaxSockets
    /\ sockets' = Append(sockets, "CONNECTING")
    /\ connectCalls' = connectCalls + 1
    /\ UNCHANGED <<mapVars, requests, reloads, repoVars, delivered>>

\* ws.onopen = () => { console.log('WebSocket Connected') }
onopen(ss) == ss

\* ws.onerror = (error) => { console.error('WebSocket error:', error) }
onerror(ss) == ss

\* a close handler that reconnects
oncloseReconnect(ss) == Append(ss, "CONNECTING")

\* ws.onclose = () => { console.log('WebSocket connection closed') }
onclose(ss) == ss

\* the connection is established: readyState OPEN, then the open event
WsOpen(i) ==
    /\ sockets[i] = "CONNECTING"
    /\ sockets' = onopen([sockets EXCEPT ![i] = "OPEN"])
    /\ UNCHANGED <<mapVars, requests, reloads, repoVars, connectCalls, delivered>>

\* the connection fails: readyState CLOSING, then the error event (the close
\* event follows)
WsError(i) ==
    /\ sockets[i] \in {"CONNECTING", "OPEN"}
    /\ sockets' = onerror([sockets EXCEPT ![i] = "CLOSING"])
    /\ UNCHANGED <<mapVars, requests, reloads, repoVars, connectCalls, delivered>>

\* the connection is closed: readyState CLOSED, then the close event
WsClose(i) ==
    /\ sockets[i] \in {"CONNECTING", "OPEN", "CLOSING"}
    /\ sockets' = onclose([sockets EXCEPT ![i] = "CLOSED"])
    /\ UNCHANGED <<mapVars, requests, reloads, repoVars, connectCalls, delivered>>

\* push messages: a JSON delta, or text that is no delta
Messages == {"delta", "malformed"}

\* what the client holds when a message event is dispatched
Client == [stops |-> stops, routes |-> routes, loading |-> loading, error |-> error,
           sockets |-> sockets]

\* a message handler that parses the payload and fails the view when the
\* payload is no delta
onmessageParse(m, c) ==
    IF m = "malformed" THEN [c EXCEPT !.error = "ChannelParseError"] ELSE c

\* the message event of a socket: connectToWebSocket sets no onmessage and
\* adds no listener, so the event has no effect on the client
onmessage(m, c) == c

\* a message arrives on an open socket
WsMessage(i, m) ==
    /\ sockets[i] = "OPEN"
    /\ Len(delivered) < MaxMessages
    /\ delivered' = Append(delivered, m)
    /\ LET c == onmessage(m, Client)
       IN  /\ stops' = c.stops
           /\ routes' = c.routes
           /\ loading' = c.loading
           /\ error' = c.error
           /\ sockets' = c.sockets
    /\ UNCHANGED <<variant, pc, mounted, resp, loadingClears, requests, reloads,
                   repoVars, connectCalls>>

ChannelNext ==
    \/ connectToWebSocket
    \/ \E i \in DOMAIN sockets : WsOpen(i)
    \/ \E i \in DOMAIN sockets : WsError(i)
    \/ \E i \in DOMAIN sockets : WsClose(i)
    \/ \E i \in DOMAIN sockets, m \in Messages : WsMessage(i, m)

\* ------------------------------------------------------------------ specifications
\* the map component together with direct callers of the repository
Next == MapNext \/ RepoNext

Spec == Init /\ [][Next]_vars

\* the map component together with the live update channel
ChannelStep == MapNext \/ ChannelNext

SpecChannel == Init /\ [][ChannelStep]_vars

\* the map component alone.  React runs a mounted component's effect, and
\* the JavaScript job that resumed an await runs to its end, so Begin and
\* Finally are taken once enabled.  When a response arrives is up to the
\* network: the Resume actions carry no fairness.
FairSpec ==
    /\ Init
    /\ [][MapNext]_vars
    /\ WF_vars(FetchStopsBegin)
    /\ WF_vars(FetchDataBegin)
    /\ WF_vars(Finally)

\* ------------------------------------------------------------------ properties
TransportFailure == {"reject", "non2xx"}

HasEmpty(args) == \E i \in DOMAIN args : args[i] = ""

ApiSettled == api.st \in {"returned", "thrown"}

\* a request of the component that the network has not answered yet
InFlight(kind) == requests[kind] > 0 /\ resp[kind] = NoOutcome

\* C1: a getAlternativeRoutes call with an empty origin or destination fails
\* with ValidationError and never has a network request in flight.
C1_EmptyIdFailsFast ==
    (api.kind = "alternativeRoutes" /\ HasEmpty(api.args))
        => (api.st = "thrown" /\ api.res.msg = "ValidationError"
            /\ requests["alternativeRoutes"] = 0)

\* C2: once a fetch has finished, a 2xx response whose top-level status is
\* not "success" (for stops or for routes) has put the view in Failure.
C2_ErrorStatusIsFailure ==
    (pc = "done" /\ \E k \in {"stops", "routes"} :
                        resp[k].net = "ok" /\ resp[k].status # "success")
        => View = "Failure"

C4_ExactlyOneTag == ~(loading /\ error # Null)

\* C5: after the component is unmounted no state update is applied.
C5_NoUpdateAfterUnmount ==
    [][~mounted => UNCHANGED <<stops, routes, error, loading>>]_vars

\* C6: a mounted component with a request in flight always eventually
\* leaves Loading (the response arrives or the timeout fires), unless it is
\* unmounted first.
C6_LoadingEventuallyEnds ==
    (mounted /\ loading /\ pc \in {"awaitStops", "awaitRoutes"})
        ~> (~loading \/ ~mounted)

\* C7: exactly one socket is created per connectToWebSocket call: the
\* open, error and close handlers create none.
C7_OneSocketPerConnect == Len(sockets) = connectCalls

W7_OneSocketPerConnect ==
    \E i, j \in DOMAIN sockets : sockets[i] = "CLOSED" /\ sockets[j] = "CLOSING"

\* C8: the delivery of a malformed push message to an open socket leaves
\* stops, routes, loading and error as they were and every socket in its
\* state (the receiving one stays OPEN).
C8_MalformedDropped ==
    [][(Len(delivered') > Len(delivered) /\ delivered'[Len(delivered')] = "malformed")
        => UNCHANGED <<stops, routes, loading, error, sockets>>]_vars

W8_MalformedDropped ==
    /\ Len(delivered) > 0 /\ delivered[Len(delivered)] = "malformed"
    /\ \E i \in DOMAIN sockets : sockets[i] = "OPEN"
    /\ pc = "done" /\ View = "Success" /\ stops # <<>>

\* C9: when the stops were loaded and the routes fetch failed, the stops
\* are still shown: the view is not the error view.
C9_StopsSurviveRoutesFailure ==
    (/\ variant = "fetchData" /\ pc = "done"
     /\ TryBranch(getStops(resp["stops"])) = "true"
     /\ TryBranch(getRoutes(resp["routes"])) = "throw")
        => (View = "Success" /\ stops = Items(resp["stops"].n))

\* C10: in fetchData the routes request is issued at most once and only
\* after the stops request completed without throwing; the two requests
\* are never in flight together; when getStops throws, no routes request
\* is issued; loading is cleared exactly once, when the function ends.
C10_SequentialLoader ==
    variant = "fetchData" =>
        /\ requests["stops"] <= 1 /\ requests["routes"] <= 1
        /\ requests["routes"] = 1 =>
              (resp["stops"] # NoOutcome /\ getStops(resp["stops"]).tag = "return")
        /\ ~(InFlight("stops") /\ InFlight("routes"))
        /\ (resp["stops"] # NoOutcome /\ getStops(resp["stops"]).tag = "throw")
              => requests["routes"] = 0
        /\ loadingClears = (IF pc = "done" THEN 1 ELSE 0)
        /\ pc = "done" => ~loading

W10_SequentialLoader ==
    /\ variant = "fetchData" /\ pc = "done"
    /\ requests["routes"] = 1 /\ resp["routes"].net = "non2xx"

====
